---- MODULE Spec2Model ----
(***************************************************************************)
(* A model of kg.py: the checksum functions, the serial synthesizer, the   *)
(* record encoder, the signing adapter's rendering, the batch generator    *)
(* and the module-level sequence that normalizes the hardware id and       *)
(* writes the authorization file.                                          *)
(*                                                                         *)
(* Strings are sequences of one-character strings.  Python integers that   *)
(* stay small are TLA+ integers; the two unbounded ones (the register r of *)
(* overall_checksum and the signature integers r, s) are digit sequences.  *)
(***************************************************************************)
EXTENDS Integers, Sequences, FiniteSets, TLC

VARIABLES
    pc,        \* position of the running script or of the function call
    argHwid,   \* args.hwid, as typed
    edition,   \* args.edition
    version,   \* args.version
    hwid,      \* module-level hwid (kg.py:106-108)
    key,       \* the DSA private key handed to sign
    seed,      \* state of the entropy source behind randint and the DSA nonce
    lines,     \* lines the generator has yielded to "\n".join so far
    file,      \* the output file: [opened, content]
    error,     \* the exception propagating out of the script, or "none"
    calls,     \* number of calls made: [random_serial, sign, generate_single]
    msg,       \* the message last handed to sign
    gen,       \* the generator generate_all returned: where it is suspended
    arg,       \* arguments of the function call under study
    ret        \* its return value

vars == <<pc, argHwid, edition, version, hwid, key, seed, lines, file, error,
          calls, msg, gen, arg, ret>>

scriptVars == <<argHwid, edition, version, hwid, key, seed, lines, file, error, gen>>

-----------------------------------------------------------------------------
(* Integer bit operations of Python on non-negative integers.              *)

Shr(n, k) == n \div (2 ^ k)

Shl(n, k) == n * (2 ^ k)

RECURSIVE BitAnd(_, _)
BitAnd(a, b) ==
    IF a = 0 \/ b = 0 THEN 0
    ELSE (a % 2) * (b % 2) + 2 * BitAnd(a \div 2, b \div 2)

RECURSIVE BitXor(_, _)
BitXor(a, b) ==
    IF a = 0 THEN b
    ELSE IF b = 0 THEN a
    ELSE ((a + b) % 2) + 2 * BitXor(a \div 2, b \div 2)

RECURSIVE BitOr(_, _)
BitOr(a, b) ==
    IF a = 0 THEN b
    ELSE IF b = 0 THEN a
    ELSE (IF a % 2 = 1 \/ b % 2 = 1 THEN 1 ELSE 0) + 2 * BitOr(a \div 2, b \div 2)

-----------------------------------------------------------------------------
(* fix_group_checksum, kg.py:40-47.  Python binds >> tighter than &, &     *)
(* tighter than ^, and ^ tighter than |.                                   *)

fix_group_checksum_no_index(group_number, n) ==
    LET checksum ==
            BitXor(BitXor(BitXor(BitXor(
                BitAnd(Shr(n, 4), 15),
                BitAnd(Shr(n, 5), 8)),
                BitAnd(Shr(n, 9), 7)),
                BitAnd(Shr(n, 11), 14)),
                BitAnd(Shr(n, 15), 1))
    IN  BitOr(BitAnd(n, 65520), checksum)

fix_group_checksum(group_number, n) ==
    LET checksum ==
            BitXor(BitXor(BitXor(BitXor(BitXor(
                BitAnd(Shr(n, 4), 15),
                BitAnd(Shr(n, 5), 8)),
                BitAnd(Shr(n, 9), 7)),
                BitAnd(Shr(n, 11), 14)),
                BitAnd(Shr(n, 15), 1)),
                group_number)
    IN  BitOr(BitAnd(n, 65520), checksum)

-----------------------------------------------------------------------------
(* The call fix_group_checksum(i, v) and the call on its own result.       *)

GroupIndices == 0 .. 4

Words == 0 .. 65535

NoCalls == [random_serial |-> 0, sign |-> 0, generate_single |-> 0]

(* The script's variables while a single function is studied on its own.   *)
ScriptIdle ==
    /\ argHwid = <<>> /\ edition = "Suite" /\ version = 12 /\ hwid = <<>>
    /\ key = [key_size |-> 1024] /\ seed = 0 /\ lines = <<>>
    /\ file = [opened |-> FALSE, content |-> <<"old">>]
    /\ error = "none"
    /\ gen = [at |-> "none", i |-> 0]

InitFix ==
    /\ pc = "call"
    /\ arg \in [i : GroupIndices, v : Words]
    /\ ret = <<>>
    /\ calls = NoCalls
    /\ msg = <<>>
    /\ ScriptIdle

CallFix ==
    /\ pc = "call"
    /\ pc' = "return"
    /\ \E once \in {fix_group_checksum(arg.i, arg.v)} :
          ret' = [once |-> once, twice |-> fix_group_checksum(arg.i, once)]
    /\ UNCHANGED <<arg, calls, msg>>
    /\ UNCHANGED scriptVars

NextFix == CallFix

SpecFix == InitFix /\ [][NextFix]_vars

(* C3: for every group index i in 0..4 and every 16-bit v,                 *)
(* fix_group_checksum(i, v) keeps bits 4..15 of v, is a 16-bit value whose *)
(* low nibble is the XOR of the five bit fields of v and of i, and         *)
(* applying it again changes nothing.                                      *)
Bit(n, k) == (n \div (2 ^ k)) % 2

NibbleBits(i, v) ==
    <<(Bit(v, 4) + Bit(v, 9) + Bit(v, 15) + Bit(i, 0)) % 2,
      (Bit(v, 5) + Bit(v, 10) + Bit(v, 12) + Bit(i, 1)) % 2,
      (Bit(v, 6) + Bit(v, 11) + Bit(v, 13) + Bit(i, 2)) % 2,
      (Bit(v, 7) + Bit(v, 8) + Bit(v, 14) + Bit(i, 3)) % 2>>

NibbleOf(i, v) ==
    LET b == NibbleBits(i, v) IN b[1] + 2 * b[2] + 4 * b[3] + 8 * b[4]

C3_FixGroupChecksum ==
    pc = "return" =>
        /\ ret.once \in Words
        /\ ret.once \div 16 = arg.v \div 16
        /\ ret.once % 16 = NibbleOf(arg.i, arg.v)
        /\ ret.twice = ret.once

C3_Witness ==
    /\ pc = "return"
    /\ arg.i = 3
    /\ arg.v = 65535
    /\ ret.once # arg.v
    /\ ret.twice = ret.once

-----------------------------------------------------------------------------
(* overall_checksum, kg.py:50-61.  The register r is a Python integer that *)
(* is never masked inside the loop, so it grows by one bit per shift (160  *)
(* shifts in all).  It is kept as its bits, least significant first, with  *)
(* at least 16 of them.                                                    *)

BigZero == [j \in 1 .. 16 |-> 0]

BigShl1(r) == <<0>> \o r

BigBit(r, k) == IF k < Len(r) THEN r[k + 1] ELSE 0

\* The low 16 bits of n, least significant first.
Bits16(n) == [j \in 1 .. 16 |-> (n \div (2 ^ (j - 1))) % 2]

\* r ^ n for a 16-bit n given by its bits: only the low 16 bits of r change.
BigXorBits(r, b) ==
    [j \in 1 .. 16 |-> (r[j] + b[j]) % 2] \o SubSeq(r, 17, Len(r))

\* 0x8005, kg.py:60
PolyBits == Bits16(32773)

\* r & 0xffff
BigLow16(r) ==
    LET RECURSIVE Sum(_)
        Sum(j) == IF j > 16 THEN 0 ELSE r[j] * (2 ^ (j - 1)) + Sum(j + 1)
    IN  Sum(1)

RECURSIVE ShiftRounds_bit15(_, _)
ShiftRounds_bit15(r, n) ==
    IF n = 0 THEN r
    ELSE LET s == BigShl1(r)
         IN  IF BigBit(s, 15) = 1
             THEN ShiftRounds_bit15(BigXorBits(s, PolyBits), n - 1)
             ELSE ShiftRounds_bit15(s, n - 1)

\* kg.py:57-60: for _ in range(8): r <<= 1; if r & 0x10000: r ^= 0x8005
RECURSIVE ShiftRounds(_, _)
ShiftRounds(r, n) ==
    IF n = 0 THEN r
    ELSE LET s == BigShl1(r)
         IN  IF BigBit(s, 16) = 1
             THEN ShiftRounds(BigXorBits(s, PolyBits), n - 1)
             ELSE ShiftRounds(s, n - 1)

\* kg.py:52-60, iterations i .. 19 of the outer loop from register r.  The
\* test of Len(r) makes TLC evaluate the register at each iteration, as
\* Python does, instead of building a chain of 20 deferred values.
RECURSIVE ChecksumLoop(_, _, _)
ChecksumLoop(groups, i, r) ==
    IF i = 20 \/ Len(r) < 16 THEN r
    ELSE LET g     == i \div 4
             digit == i % 4
             v     == BitAnd(Shr(groups[g + 1], digit * 8), 255)
         IN  ChecksumLoop(groups, i + 1, ShiftRounds(BigXorBits(r, Bits16(Shl(v, 8))), 8))

overall_checksum(groups) == BigLow16(ChecksumLoop(groups, 0, BigZero))

-----------------------------------------------------------------------------
(* Sample 16-bit values: the two ends of the range and MaxSample others.   *)

MaxSample == 2

WordSamples == {0, 65535} \cup {(k * 40503) % 65536 : k \in 1 .. MaxSample}

Group0Samples == {12288, 16383} \cup {12288 + ((k * 40503) % 4096) : k \in 1 .. MaxSample}

-----------------------------------------------------------------------------
(* The call overall_checksum(groups) on a list of five groups.             *)

InitCrc ==
    /\ pc = "call"
    /\ arg \in [1 .. 5 -> WordSamples]
    /\ ret = <<>>
    /\ calls = NoCalls
    /\ msg = <<>>
    /\ ScriptIdle

CallCrc ==
    /\ pc = "call"
    /\ pc' = "return"
    /\ ret' = overall_checksum(arg)
    /\ UNCHANGED <<arg, calls, msg>>
    /\ UNCHANGED scriptVars

NextCrc == CallCrc

SpecCrc == InitCrc /\ [][NextCrc]_vars

(* The reference algorithm: a 16-bit register, masked after every shift    *)
(* round; per group the bytes low, high, 0, 0; polynomial 0x8005 applied   *)
(* when bit 16 of the shifted value is set.                                *)
RefBytes(groups) ==
    LET b(g) == <<groups[g] % 256, groups[g] \div 256, 0, 0>>
    IN  b(1) \o b(2) \o b(3) \o b(4) \o b(5)

RECURSIVE RefRounds(_, _)
RefRounds(r, n) ==
    IF n = 0 THEN r
    ELSE LET s == 2 * r
             t == IF s >= 65536 THEN BitXor(s, 32773) ELSE s
         IN  RefRounds(t % 65536, n - 1)

RECURSIVE RefLoop(_, _, _)
RefLoop(bytes, i, r) ==
    IF i > Len(bytes) \/ r < 0 THEN r
    ELSE RefLoop(bytes, i + 1, RefRounds(BitXor(r, 256 * bytes[i]), 8))

RefChecksum(groups) == RefLoop(RefBytes(groups), 1, 0) % 65536

(* C4: overall_checksum, which masks only its return value, returns what   *)
(* the reference algorithm with a register masked after every round        *)
(* returns, for every list of five 16-bit groups.                          *)
C4_UnmaskedEqualsMasked ==
    pc = "return" => ret = RefChecksum(arg)

C4_Witness ==
    /\ pc = "return"
    /\ arg = <<65535, 0, 40503, 65535, 0>>
    /\ ret = RefChecksum(arg)
    /\ ret # 0

-----------------------------------------------------------------------------
(* Python's format specifications "{:0wX}": the number in uppercase        *)
(* hexadecimal with as many digits as it needs, zero-padded on the left to *)
(* at least w characters and never truncated.                              *)

HexDigits ==
    <<"0", "1", "2", "3", "4", "5", "6", "7", "8", "9", "A", "B", "C", "D", "E", "F">>

RECURSIVE HexOf(_)
HexOf(n) ==
    IF n < 16 THEN <<HexDigits[n + 1]>>
    ELSE HexOf(n \div 16) \o <<HexDigits[(n % 16) + 1]>>

ZeroPad(str, w) ==
    IF Len(str) >= w THEN str ELSE [j \in 1 .. w - Len(str) |-> "0"] \o str

FormatX_nopad(n, w) == HexOf(n)

FormatX(n, w) == ZeroPad(HexOf(n), w)

-----------------------------------------------------------------------------
(* random_serial, kg.py:64-79.  draws are the five values randint          *)
(* returned, in the order of the calls.                                    *)

Dash == <<"-">>

random_serial_crc_first(draws) ==
    LET groups == [i \in 1 .. 5 |-> fix_group_checksum(i - 1, draws[i])]
        d      == overall_checksum(draws)
    IN  FormatX(groups[1], 4) \o Dash \o FormatX(groups[2], 4) \o Dash \o
        FormatX(groups[3], 4) \o Dash \o FormatX(groups[4], 4) \o Dash \o
        FormatX(groups[5], 4) \o Dash \o FormatX(d, 4)

random_serial(draws) ==
    LET groups == [i \in 1 .. 5 |-> fix_group_checksum(i - 1, draws[i])]
        d      == overall_checksum(groups)
    IN  FormatX(groups[1], 4) \o Dash \o FormatX(groups[2], 4) \o Dash \o
        FormatX(groups[3], 4) \o Dash \o FormatX(groups[4], 4) \o Dash \o
        FormatX(groups[5], 4) \o Dash \o FormatX(d, 4)

\* What the five randint calls of kg.py:71-75 may return, sampled.
SerialDraws ==
    {<<a, b, c, d, e>> : a \in Group0Samples, b \in WordSamples, c \in WordSamples,
                         d \in WordSamples, e \in WordSamples}

InitSerial ==
    /\ pc = "call"
    /\ arg = <<>>
    /\ ret = <<>>
    /\ calls = NoCalls
    /\ msg = <<>>
    /\ ScriptIdle

CallSerial ==
    /\ pc = "call"
    /\ pc' = "return"
    /\ \E draws \in SerialDraws :
          /\ arg' = draws
          /\ ret' = random_serial(draws)
    /\ calls' = [calls EXCEPT !.random_serial = @ + 1]
    /\ UNCHANGED msg
    /\ UNCHANGED scriptVars

NextSerial == CallSerial

SpecSerial == InitSerial /\ [][NextSerial]_vars

(* Reading a rendered serial back.                                         *)
IsHexChar(c) == \E k \in 1 .. 16 : HexDigits[k] = c

HexValue(c) == (CHOOSE k \in 1 .. 16 : HexDigits[k] = c) - 1

RECURSIVE ParseHex(_)
ParseHex(str) ==
    IF Len(str) = 0 THEN 0
    ELSE 16 * ParseHex(SubSeq(str, 1, Len(str) - 1)) + HexValue(str[Len(str)])

\* Six groups of four hex digits separated by "-".
IsGrouped(str) ==
    /\ Len(str) = 29
    /\ \A j \in 1 .. 29 : IF j % 5 = 0 THEN str[j] = "-" ELSE IsHexChar(str[j])

GroupOf(str, i) == ParseHex(SubSeq(str, 5 * i + 1, 5 * i + 4))

SelfVerifying(serial) ==
    /\ IsGrouped(serial)
    /\ \A i \in 0 .. 4 : GroupOf(serial, i) % 16 = NibbleOf(i, GroupOf(serial, i))
    /\ GroupOf(serial, 5) = overall_checksum([i \in 1 .. 5 |-> GroupOf(serial, i - 1)])
    /\ GroupOf(serial, 0) \in 12288 .. 16383

(* C2: every serial random_serial returns is self-verifying: the low       *)
(* nibble of each of the rendered groups 0..4 is the checksum of its own   *)
(* bits 4..15 and index, rendered group 5 is overall_checksum of the       *)
(* rendered groups 0..4, and group 0 is in 0x3000..0x3FFF.                 *)
C2_SerialSelfVerifying ==
    pc = "return" => SelfVerifying(ret)

C2_Witness ==
    /\ pc = "return"
    /\ arg = <<16383, 65535, 0, 40503, 65535>>
    /\ SelfVerifying(ret)
    /\ GroupOf(ret, 1) # arg[2]

-----------------------------------------------------------------------------
(* Keys and the signature primitive.  A key is known by its bit length     *)
(* (key_size, the length of p) and its subgroup order q.  The signature    *)
(* integers r and s exceed TLC's integers: such a number is the sequence   *)
(* of its hexadecimal digits, most significant first, without leading      *)
(* zeros.                                                                  *)

\* kg.py:100, the 160-bit q of team_r2r_key.
QDigits ==
    <<12, 3, 7, 11, 14, 9, 0, 14, 3, 15, 8, 14, 6, 4, 14, 0, 3, 10, 4, 2,
      12, 10, 8, 13, 6, 8, 10, 13, 5, 12, 8, 3, 14, 11, 4, 7, 13, 3, 10, 9>>

\* kg.py:25-29 and 98-104: p has 1024 bits.
team_r2r_key == [key_size |-> 1024, q |-> QDigits]

\* A key sign refuses.
large_key == [key_size |-> 2048, q |-> QDigits]

Keys == {team_r2r_key, large_key}

BigLess(a, b) ==
    \/ Len(a) < Len(b)
    \/ /\ Len(a) = Len(b)
       /\ \E j \in 1 .. Len(a) : a[j] < b[j] /\ \A i \in 1 .. j - 1 : a[i] = b[i]

SigDigits == {1, 9, 12, 15}

\* Values 1 <= n < q: short ones, ones of q's length and of one digit less,
\* and q - 1 (q's last digit is not 0).
SigValues(q) ==
    {n \in {[j \in 1 .. len |-> d] : d \in SigDigits,
                                     len \in {1, 2, Len(q) - 1, Len(q)}}
        : BigLess(n, q)}
    \cup {[q EXCEPT ![Len(q)] = @ - 1]}

NoSignature == [ok |-> FALSE, r |-> <<>>, s |-> <<>>]

\* What k.sign and decode_dss_signature (kg.py:35-36) may do: raise, or
\* return a pair (r, s) with 1 <= r, s < q.
SignOutcomes(k) ==
    {NoSignature} \cup {[ok |-> TRUE, r |-> r, s |-> s] : r \in SigValues(k.q),
                                                          s \in SigValues(k.q)}

\* "{:0wX}".format(n) for a number given by its hex digits.
FormatBigX(n, w) == ZeroPad([j \in 1 .. Len(n) |-> HexDigits[n[j] + 1]], w)

sign_s_then_r(k, m, prim) ==
    IF k.key_size # 1024 THEN [raised |-> "AssertionError", value |-> <<>>]
    ELSE IF ~prim.ok THEN [raised |-> "SignatureError", value |-> <<>>]
    ELSE [raised |-> "none",
          value  |-> FormatBigX(prim.s, 40) \o FormatBigX(prim.r, 40)]

\* sign, kg.py:32-37; prim is the outcome of the primitive on m.
sign(k, m, prim) ==
    IF k.key_size # 1024 THEN [raised |-> "AssertionError", value |-> <<>>]
    ELSE IF ~prim.ok THEN [raised |-> "SignatureError", value |-> <<>>]
    ELSE [raised |-> "none",
          value  |-> FormatBigX(prim.r, 40) \o FormatBigX(prim.s, 40)]

-----------------------------------------------------------------------------
(* The call sign(k, m).                                                    *)

SignMessages == {<<>>, <<"m">>}

InitSign ==
    /\ pc = "call"
    /\ arg \in [k : Keys, m : SignMessages]
    /\ ret = <<>>
    /\ calls = NoCalls
    /\ msg = <<>>
    /\ ScriptIdle

CallSign ==
    /\ pc = "call"
    /\ pc' = "return"
    /\ \E prim \in SignOutcomes(arg.k) :
          ret' = [result |-> sign(arg.k, arg.m, prim), prim |-> prim]
    /\ msg' = arg.m
    /\ calls' = [calls EXCEPT !.sign = @ + 1]
    /\ UNCHANGED arg
    /\ UNCHANGED scriptVars

NextSign == CallSign

SpecSign == InitSign /\ [][NextSign]_vars

RECURSIVE StripZeros(_)
StripZeros(n) ==
    IF Len(n) > 1 /\ n[1] = 0 THEN StripZeros(Tail(n)) ELSE n

\* The number a string of hex digits denotes.
DecodeBig(str) == StripZeros([j \in 1 .. Len(str) |-> HexValue(str[j])])

(* C9: for 1 <= r, s < q, sign returns 80 uppercase hex digits, the first  *)
(* 40 of which denote r and the last 40 s.                                 *)
C9_SignatureRendering ==
    (pc = "return" /\ ret.result.raised = "none") =>
        LET v == ret.result.value
        IN  /\ Len(v) = 80
            /\ \A j \in 1 .. 80 : IsHexChar(v[j])
            /\ DecodeBig(SubSeq(v, 1, 40)) = ret.prim.r
            /\ DecodeBig(SubSeq(v, 41, 80)) = ret.prim.s

C9_Witness ==
    /\ pc = "return"
    /\ ret.result.raised = "none"
    /\ ret.prim.r = <<9>>
    /\ Len(ret.prim.s) = 40
    /\ ret.result.value[40] = "9"
    /\ ret.result.value[41] = "C"

-----------------------------------------------------------------------------
(* generate_single, kg.py:82-87.                                           *)

Comma == <<",">>

Standard == <<"S", "t", "a", "n", "d", "a", "r", "d">>

\* f.format(a, id1, id2, b) for f = "{},{:02X},{:02X},Standard,{}" (kg.py:83)
RecordFormat(a, id1, id2, b) ==
    a \o Comma \o FormatX(id1, 2) \o Comma \o FormatX(id2, 2) \o Comma \o
    Standard \o Comma \o b

\* kg.py:85-87 for a given serial; serial2 is the serial of the line returned.
SignedRecord(k, id1, id2, h, serial, serial2, prim, nserials) ==
    LET m   == RecordFormat(serial, id1, id2, h)
        sig == sign(k, m, prim)
    IN  [raised |-> sig.raised,
         msg    |-> m,
         line   |-> IF sig.raised = "none"
                    THEN RecordFormat(serial2, id1, id2, sig.value)
                    ELSE <<>>,
         made   |-> [random_serial |-> nserials, sign |-> 1]]

generate_single_two_serials(k, id1, id2, h, draws, prim) ==
    SignedRecord(k, id1, id2, h, random_serial(draws.first),
                 random_serial(draws.second), prim, 2)

\* draws.first are the values the five randint calls return (draws.second is
\* what five further calls would return); prim is the outcome of the
\* signature primitive.  The result holds the exception raised or the line
\* returned, the message handed to sign and the calls made.
generate_single(k, id1, id2, h, draws, prim) ==
    LET serial == random_serial(draws.first)
    IN  SignedRecord(k, id1, id2, h, serial, serial, prim, 1)

-----------------------------------------------------------------------------
(* The call generate_single(k, id1, id2, hwid).                            *)

Bytes == 0 .. 255

IdSamples == {0, 16}

IdPairs ==
    {<<a, b>> : a \in Bytes, b \in IdSamples} \cup
    {<<a, b>> : a \in IdSamples, b \in Bytes}

SampleHwid ==
    <<"1", "1", "1", "1", "-", "2", "2", "2", "2", "-", "3", "3", "3", "3", "-",
      "4", "4", "4", "4", "-", "A", "B", "C", "D", "-", "6", "6", "6", "6">>

SingleDraws ==
    {[first  |-> <<12288, 0, 0, 0, 0>>,
      second |-> <<16383, 65535, 40503, 0, 65535>>],
     [first  |-> <<16383, 65535, 40503, 0, 65535>>,
      second |-> <<12288, 0, 0, 0, 0>>]}

SingleOutcomes(k) ==
    {NoSignature,
     [ok |-> TRUE, r |-> <<9>>, s |-> [k.q EXCEPT ![Len(k.q)] = @ - 1]],
     [ok |-> TRUE, r |-> [j \in 1 .. Len(k.q) |-> 1], s |-> <<1, 15>>]}

InitSingle ==
    /\ pc = "call"
    /\ \E k \in Keys, ids \in IdPairs :
          arg = [k |-> k, id1 |-> ids[1], id2 |-> ids[2], hwid |-> SampleHwid]
    /\ ret = <<>>
    /\ calls = NoCalls
    /\ msg = <<>>
    /\ ScriptIdle

CallSingle ==
    /\ pc = "call"
    /\ pc' = "return"
    /\ \E draws \in SingleDraws, prim \in SingleOutcomes(arg.k) :
          \E res \in {generate_single(arg.k, arg.id1, arg.id2, arg.hwid, draws, prim)} :
              /\ ret' = [raised |-> res.raised, line |-> res.line, prim |-> prim]
              /\ msg' = res.msg
              /\ calls' = [random_serial   |-> calls.random_serial + res.made.random_serial,
                           sign            |-> calls.sign + res.made.sign,
                           generate_single |-> calls.generate_single + 1]
    /\ UNCHANGED arg
    /\ UNCHANGED scriptVars

NextSingle == CallSingle

SpecSingle == InitSingle /\ [][NextSingle]_vars

\* The fields of a line: the pieces between its commas.
RECURSIVE Fields(_)
Fields(str) ==
    IF \A j \in 1 .. Len(str) : str[j] # ","
    THEN <<str>>
    ELSE LET c == CHOOSE j \in 1 .. Len(str) :
                     str[j] = "," /\ \A i \in 1 .. j - 1 : str[i] # ","
         IN  <<SubSeq(str, 1, c - 1)>> \o Fields(SubSeq(str, c + 1, Len(str)))

IsHexString(str, n) == Len(str) = n /\ \A j \in 1 .. n : IsHexChar(str[j])

Returned == pc = "return" /\ ret.raised = "none"

\* The claim as made: four fields, the message being serial,id1,id2,hwid.
C5_FourFields ==
    Returned =>
        LET f == Fields(ret.line)
        IN  /\ Len(f) = 4
            /\ IsGrouped(f[1])
            /\ IsHexString(f[2], 2) /\ IsHexString(f[3], 2)
            /\ IsHexString(f[4], 80)
            /\ msg = f[1] \o Comma \o f[2] \o Comma \o f[3] \o Comma \o arg.hwid

(* C5, amended: for id1, id2 in 0x00..0xFF the line generate_single        *)
(* returns has exactly five comma-separated fields: the 29-character       *)
(* serial, id1 and id2 as two uppercase hex digits each, the literal       *)
(* Standard, and the 80-hex-digit signature; the message signed is         *)
(* serial,id1,id2,Standard,hwid.                                           *)
C5_FiveFields ==
    Returned =>
        LET f == Fields(ret.line)
        IN  /\ Len(f) = 5
            /\ IsGrouped(f[1])
            /\ IsHexString(f[2], 2) /\ ParseHex(f[2]) = arg.id1
            /\ IsHexString(f[3], 2) /\ ParseHex(f[3]) = arg.id2
            /\ f[4] = Standard
            /\ IsHexString(f[5], 80)
            /\ msg = f[1] \o Comma \o f[2] \o Comma \o f[3] \o Comma \o
                     Standard \o Comma \o arg.hwid

C5_Witness ==
    /\ Returned
    /\ arg.id1 = 10
    /\ arg.id2 = 16
    /\ Len(ret.line) = 125
    /\ SubSeq(ret.line, 30, 45) =
          <<",", "0", "A", ",", "1", "0", ",", "S", "t", "a", "n", "d", "a", "r", "d", ",">>

(* C10: every call of generate_single generates exactly one serial and     *)
(* calls sign exactly once, and leaves the hardware id and the key as they *)
(* were; when it returns, the message signed and the line returned have    *)
(* the same serial, id1 and id2 fields and differ only in the last field,  *)
(* the hardware id in the message and the signature in the line.           *)
C10_TwoPassesShareFields ==
    [][(pc = "call" /\ pc' = "return") =>
          /\ calls'.random_serial = calls.random_serial + 1
          /\ calls'.sign = calls.sign + 1
          /\ arg'.hwid = arg.hwid
          /\ arg'.k = arg.k
          /\ ret'.raised = "none" =>
                LET m == Fields(msg')
                    l == Fields(ret'.line)
                IN  /\ Len(m) = Len(l)
                    /\ \A j \in 1 .. Len(m) - 1 : m[j] = l[j]
                    /\ m[Len(m)] = arg.hwid
                    /\ l[Len(l)] = FormatBigX(ret'.prim.r, 40) \o
                                   FormatBigX(ret'.prim.s, 40)
                    /\ SelfVerifying(l[1])]_vars

C10_Witness ==
    /\ Returned
    /\ arg.id1 = 255
    /\ calls = [random_serial |-> 1, sign |-> 1, generate_single |-> 1]
    /\ SubSeq(msg, 1, 45) = SubSeq(ret.line, 1, 45)
    /\ SubSeq(msg, 46, Len(msg)) = arg.hwid
    /\ msg # ret.line

-----------------------------------------------------------------------------
(* Hardware-id normalization, kg.py:106-109.                               *)

LowerCase ==
    <<"a", "b", "c", "d", "e", "f", "g", "h", "i", "j", "k", "l", "m",
      "n", "o", "p", "q", "r", "s", "t", "u", "v", "w", "x", "y", "z">>

UpperCase ==
    <<"A", "B", "C", "D", "E", "F", "G", "H", "I", "J", "K", "L", "M",
      "N", "O", "P", "Q", "R", "S", "T", "U", "V", "W", "X", "Y", "Z">>

\* str.upper() on ASCII text
UpperChar(c) ==
    IF \E k \in 1 .. 26 : LowerCase[k] = c
    THEN UpperCase[CHOOSE k \in 1 .. 26 : LowerCase[k] = c]
    ELSE c

Upper(str) == [j \in 1 .. Len(str) |-> UpperChar(str[j])]

\* "-".join(hwid[i:i+4] for i in range(0, 24, 4)) on a string of 24 characters
JoinChunks(str) ==
    SubSeq(str, 1, 4) \o Dash \o SubSeq(str, 5, 8) \o Dash \o
    SubSeq(str, 9, 12) \o Dash \o SubSeq(str, 13, 16) \o Dash \o
    SubSeq(str, 17, 20) \o Dash \o SubSeq(str, 21, 24)

HexClass ==
    {"0", "1", "2", "3", "4", "5", "6", "7", "8", "9", "A", "B", "C", "D", "E", "F"}

\* re.fullmatch(r"([0-9A-F]{4}-){5}[0-9A-F]{4}", str): five times four
\* class characters and "-", then four class characters, and nothing else.
FullMatchHwid(str) ==
    /\ Len(str) = 5 * 5 + 4
    /\ \A g \in 0 .. 4 :
          /\ \A j \in 1 .. 4 : str[5 * g + j] \in HexClass
          /\ str[5 * g + 5] = "-"
    /\ \A j \in 1 .. 4 : str[25 + j] \in HexClass

NormalizeHwid_no_upper(typed) ==
    LET h == IF Len(typed) = 24 THEN JoinChunks(typed) ELSE typed
    IN  [hwid |-> h, ok |-> FullMatchHwid(h)]

\* kg.py:106-109: the value of hwid and whether the assertion passes.
NormalizeHwid(typed) ==
    LET u == Upper(typed)
        h == IF Len(u) = 24 THEN JoinChunks(u) ELSE u
    IN  [hwid |-> h, ok |-> FullMatchHwid(h)]

-----------------------------------------------------------------------------
(* generate_all, kg.py:90-95, as the generator it is: g says where the     *)
(* generator is suspended, and the result is what next() does from there:  *)
(* the (id1, id2) of the record it yields and where it is suspended next,  *)
(* or stop when both loops are exhausted.                                  *)

\* kg.py:10-15
EDITIONS == [Lite |-> 4, Intro |-> 3, Standard |-> 0, Suite |-> 2]

\* kg.py:20, choices=range(9, 13)
Versions == 9 .. 12

Yield(id1, id2, at, i) ==
    [stop |-> FALSE, id1 |-> id1, id2 |-> id2, gen |-> [at |-> at, i |-> i]]

generate_all_next_short_range(g, ed, ver) ==
    IF g.at = "start" THEN Yield(EDITIONS[ed], Shl(ver, 4), "first", 0)
    ELSE IF g.at = "first" THEN Yield(64, 16, "loop1", 64)
    ELSE IF g.at = "loop1" /\ g.i + 1 < 255 THEN Yield(g.i + 1, 16, "loop1", g.i + 1)
    ELSE IF g.at = "loop1" THEN Yield(32768, 16, "loop2", 32768)
    ELSE IF g.at = "loop2" /\ g.i + 1 < 33023 + 1
         THEN Yield(g.i + 1, 16, "loop2", g.i + 1)
    ELSE [stop |-> TRUE, id1 |-> 0, id2 |-> 0, gen |-> [at |-> "end", i |-> g.i]]

generate_all_next(g, ed, ver) ==
    IF g.at = "start" THEN Yield(EDITIONS[ed], Shl(ver, 4), "first", 0)
    ELSE IF g.at = "first" THEN Yield(64, 16, "loop1", 64)
    ELSE IF g.at = "loop1" /\ g.i + 1 < 255 + 1
         THEN Yield(g.i + 1, 16, "loop1", g.i + 1)
    ELSE IF g.at = "loop1" THEN Yield(32768, 16, "loop2", 32768)
    ELSE IF g.at = "loop2" /\ g.i + 1 < 33023 + 1
         THEN Yield(g.i + 1, 16, "loop2", g.i + 1)
    ELSE [stop |-> TRUE, id1 |-> 0, id2 |-> 0, gen |-> [at |-> "end", i |-> g.i]]

-----------------------------------------------------------------------------
(* The entropy behind randint and the DSA nonce.  A run is one stream of   *)
(* values: seed is the state of the stream, stepped once per record.       *)

MaxSeed == 0

NextSeed(sd) == (sd * 25173 + 13849) % 65536

SeedDraw(sd) ==
    <<12288 + (sd % 4096), (sd * 3 + 1) % 65536, (sd * 5 + 40503) % 65536,
      (65535 - sd) % 65536, (sd * 7 + 2) % 65536>>

SeedDraws(sd) == [first |-> SeedDraw(sd), second |-> SeedDraw(NextSeed(sd))]

\* A number in 1 .. q-1: its first digit is below the first digit of q.
SeedSig(sd, salt) ==
    [d \in 1 .. 1 + ((sd + 13 * salt) % 40) |->
        IF d = 1 THEN 1 + (sd % 11) ELSE (sd + d * salt) % 16]

\* The primitive raises, or signs with the stream's nonce.
SeedOutcomes(sd) ==
    {NoSignature, [ok |-> TRUE, r |-> SeedSig(sd, 1), s |-> SeedSig(sd, 2)]}

-----------------------------------------------------------------------------
(* The module-level sequence, kg.py:106-113.                               *)

NewLine == <<"\n">>

\* "\n".join(ls[lo .. hi])
RECURSIVE JoinLines(_, _, _)
JoinLines(ls, lo, hi) ==
    IF lo > hi THEN <<>>
    ELSE IF lo = hi THEN ls[lo]
    ELSE LET mid == (lo + hi) \div 2
         IN  JoinLines(ls, lo, mid) \o NewLine \o JoinLines(ls, mid + 1, hi)

HwidError == "AssertionError: Expected hardware ID"

\* kg.py:106-109
Normalize_truncating ==
    /\ pc = "normalize"
    /\ \E n \in {NormalizeHwid(argHwid)} :
          /\ hwid' = n.hwid
          /\ IF n.ok
             THEN pc' = "generate_all" /\ error' = error /\ file' = file
             ELSE /\ pc' = "failed" /\ error' = HwidError
                  /\ file' = [opened |-> FALSE, content |-> <<>>]
    /\ UNCHANGED <<argHwid, edition, version, key, seed, lines, calls, msg, gen,
                   arg, ret>>

Normalize ==
    /\ pc = "normalize"
    /\ \E n \in {NormalizeHwid(argHwid)} :
          /\ hwid' = n.hwid
          /\ IF n.ok
             THEN pc' = "generate_all" /\ error' = error
             ELSE pc' = "failed" /\ error' = HwidError
    /\ UNCHANGED <<argHwid, edition, version, key, seed, lines, file, calls, msg,
                   gen, arg, ret>>

\* kg.py:111: the call creates the generator and runs none of its body.
MakeGenerator ==
    /\ pc = "generate_all"
    /\ pc' = "open"
    /\ gen' = [at |-> "start", i |-> 0]
    /\ UNCHANGED <<argHwid, edition, version, hwid, key, seed, lines, file, error,
                   calls, msg, arg, ret>>

\* kg.py:112: mode "w" creates or truncates the file.
OpenFile ==
    /\ pc = "open"
    /\ pc' = "join"
    /\ file' = [opened |-> TRUE, content |-> <<>>]
    /\ UNCHANGED <<argHwid, edition, version, hwid, key, seed, lines, error,
                   calls, msg, gen, arg, ret>>

NextRecord_streaming ==
    /\ pc = "join"
    /\ \E step \in {generate_all_next(gen, edition, version)} :
          /\ ~step.stop
          /\ \E prim \in SeedOutcomes(seed) :
             \E res \in {generate_single(key, step.id1, step.id2, hwid,
                                         SeedDraws(seed), prim)} :
                /\ msg' = res.msg
                /\ calls' = [random_serial   |-> calls.random_serial + res.made.random_serial,
                             sign            |-> calls.sign + res.made.sign,
                             generate_single |-> calls.generate_single + 1]
                /\ IF res.raised = "none"
                   THEN /\ lines' = Append(lines, res.line)
                        /\ gen' = step.gen
                        /\ file' = [file EXCEPT !.content = @ \o res.line \o NewLine]
                        /\ UNCHANGED <<pc, error>>
                   ELSE /\ pc' = "failed"
                        /\ error' = res.raised
                        /\ gen' = [at |-> "end", i |-> step.gen.i]
                        /\ file' = [file EXCEPT !.opened = FALSE]
                        /\ UNCHANGED lines
    /\ seed' = NextSeed(seed)
    /\ UNCHANGED <<argHwid, edition, version, hwid, key, arg, ret>>

\* kg.py:113, one next() of "\n".join on the generator: generate_all resumes
\* and runs generate_single.  A line is kept by join; an exception ends the
\* generator, leaves join and the with block, which closes the file.
NextRecord ==
    /\ pc = "join"
    /\ \E step \in {generate_all_next(gen, edition, version)} :
          /\ ~step.stop
          /\ \E prim \in SeedOutcomes(seed) :
             \E res \in {generate_single(key, step.id1, step.id2, hwid,
                                         SeedDraws(seed), prim)} :
                /\ msg' = res.msg
                /\ calls' = [random_serial   |-> calls.random_serial + res.made.random_serial,
                             sign            |-> calls.sign + res.made.sign,
                             generate_single |-> calls.generate_single + 1]
                /\ IF res.raised = "none"
                   THEN /\ lines' = Append(lines, res.line)
                        /\ gen' = step.gen
                        /\ UNCHANGED <<pc, error, file>>
                   ELSE /\ pc' = "failed"
                        /\ error' = res.raised
                        /\ gen' = [at |-> "end", i |-> step.gen.i]
                        /\ file' = [file EXCEPT !.opened = FALSE]
                        /\ UNCHANGED lines
    /\ seed' = NextSeed(seed)
    /\ UNCHANGED <<argHwid, edition, version, hwid, key, arg, ret>>

\* kg.py:113, the last next(): the generator is exhausted, join returns the
\* joined text, f.write writes it and the with block closes the file.
WriteFile ==
    /\ pc = "join"
    /\ \E step \in {generate_all_next(gen, edition, version)} :
          /\ step.stop
          /\ gen' = step.gen
    /\ file' = [opened |-> FALSE, content |-> JoinLines(lines, 1, Len(lines))]
    /\ pc' = "done"
    /\ UNCHANGED <<argHwid, edition, version, hwid, key, seed, lines, error,
                   calls, msg, arg, ret>>

RawHwid ==
    <<"1", "1", "1", "1", "2", "2", "2", "2", "3", "3", "3", "3",
      "4", "4", "4", "4", "a", "b", "c", "d", "6", "6", "6", "6">>

\* Typed hardware ids of a whole run: raw, five groups of four, not hex.
MainHwids ==
    {RawHwid, SubSeq(SampleHwid, 1, 24), [RawHwid EXCEPT ![7] = "g"]}

InitMain ==
    /\ pc = "normalize"
    /\ argHwid \in MainHwids
    /\ edition \in DOMAIN EDITIONS
    /\ version \in Versions
    /\ hwid = <<>>
    /\ key = team_r2r_key
    /\ seed \in 0 .. MaxSeed
    /\ lines = <<>>
    /\ file = [opened |-> FALSE, content |-> <<"old">>]
    /\ error = "none"
    /\ calls = NoCalls
    /\ msg = <<>>
    /\ gen = [at |-> "none", i |-> 0]
    /\ arg = <<>>
    /\ ret = <<>>

NextMain == Normalize \/ MakeGenerator \/ OpenFile \/ NextRecord \/ WriteFile

SpecMain == InitMain /\ [][NextMain]_vars

(* C1: consumed to its end, generate_all yields exactly 449 records: the   *)
(* first with id1 = EDITIONS[edition] and id2 = version << 4, records      *)
(* 2..193 with id1 = 0x40..0xFF ascending and id2 = 0x10, records 194..449 *)
(* with id1 = 0x8000..0x80FF ascending and id2 = 0x10.                     *)
ExpectedIds(n) ==
    IF n = 1 THEN <<EDITIONS[edition], version * 16>>
    ELSE IF n <= 193 THEN <<64 + (n - 2), 16>>
    ELSE <<32768 + (n - 194), 16>>

IdsOfLine(line) == LET f == Fields(line) IN <<ParseHex(f[2]), ParseHex(f[3])>>

C1_BatchOrder ==
    /\ Len(lines) <= 449
    /\ Len(lines) > 0 => IdsOfLine(lines[Len(lines)]) = ExpectedIds(Len(lines))
    /\ pc = "done" => Len(lines) = 449

C1_Witness ==
    /\ pc = "done"
    /\ edition = "Lite"
    /\ version = 9
    /\ Len(lines) = 449
    /\ IdsOfLine(lines[1]) = <<4, 144>>
    /\ IdsOfLine(lines[193]) = <<255, 16>>
    /\ IdsOfLine(lines[194]) = <<32768, 16>>
    /\ IdsOfLine(lines[449]) = <<33023, 16>>

(* C7: in a run that rejects the hardware id nothing has been generated    *)
(* and the output is untouched: no call of random_serial, sign or          *)
(* generate_single, no generator, the file neither opened nor truncated    *)
(* nor written.                                                            *)
C7_RejectBeforeGeneration ==
    error = HwidError =>
        /\ pc = "failed"
        /\ calls = NoCalls
        /\ gen.at = "none"
        /\ lines = <<>>
        /\ file = [opened |-> FALSE, content |-> <<"old">>]

C7_Witness ==
    /\ error = HwidError
    /\ argHwid = SubSeq(SampleHwid, 1, 24)
    /\ Len(hwid) = 29
    /\ file.content = <<"old">>

-----------------------------------------------------------------------------
(* Normalization alone, on many typed hardware ids: MaxGroups or fewer     *)
(* groups, each a mixed-case hex group, a group with a letter that is no   *)
(* hex digit or a group of three, joined by nothing or by "-", with or     *)
(* without a newline at the end.                                           *)

MaxGroups == 7

TypedGroups == {<<"1", "a", "2", "B">>, <<"1", "2", "g", "4">>, <<"f", "0", "9">>}

RECURSIVE JoinWith(_, _)
JoinWith(gs, sep) ==
    IF Len(gs) = 0 THEN <<>>
    ELSE IF Len(gs) = 1 THEN gs[1]
    ELSE gs[1] \o sep \o JoinWith(Tail(gs), sep)

TypedHwids ==
    UNION {{JoinWith(gs, sep) \o suffix : gs \in [1 .. n -> TypedGroups],
                                          sep \in {<<>>, Dash},
                                          suffix \in {<<>>, NewLine}}
           : n \in 5 .. MaxGroups}

InitHwid ==
    /\ pc = "normalize"
    /\ argHwid \in TypedHwids
    /\ edition = "Suite"
    /\ version = 12
    /\ hwid = <<>>
    /\ key = team_r2r_key
    /\ seed = 0
    /\ lines = <<>>
    /\ file = [opened |-> FALSE, content |-> <<"old">>]
    /\ error = "none"
    /\ calls = NoCalls
    /\ msg = <<>>
    /\ gen = [at |-> "none", i |-> 0]
    /\ arg = <<>>
    /\ ret = <<>>

NextHwid == Normalize

SpecHwid == InitHwid /\ [][NextHwid]_vars

(* C6: a typed hardware id is accepted exactly when, uppercased, it is 24  *)
(* hex characters or six groups of four hex digits separated by "-"; the   *)
(* normalized value is then the uppercased input, with "-" inserted after  *)
(* every four characters in the first case and unchanged in the second,    *)
(* and has the form XXXX-XXXX-XXXX-XXXX-XXXX-XXXX; anything else is        *)
(* rejected.                                                               *)
Uppercased(str) == [j \in 1 .. Len(str) |-> UpperChar(str[j])]

WithDashes(str) ==
    [j \in 1 .. 29 |-> IF j % 5 = 0 THEN "-" ELSE str[j - (j \div 5)]]

C6_Normalization ==
    pc # "normalize" =>
        LET u == Uppercased(argHwid)
        IN  /\ (pc = "generate_all") <=> (IsHexString(u, 24) \/ IsGrouped(u))
            /\ (pc = "failed") <=> ~(IsHexString(u, 24) \/ IsGrouped(u))
            /\ IsHexString(u, 24) => hwid = WithDashes(u)
            /\ IsGrouped(u) => hwid = u
            /\ pc = "generate_all" => IsGrouped(hwid) /\ Len(hwid) = 29

C6_Witness ==
    /\ pc = "generate_all"
    /\ Len(argHwid) = 24
    /\ argHwid[2] = "a"
    /\ hwid[2] = "A"
    /\ hwid[5] = "-"
    /\ hwid[6] = argHwid[5]

-----------------------------------------------------------------------------
(* The batch alone, kg.py:111-113, with the key as the parameter it is for *)
(* generate_all: the script's key, or one whose size sign refuses.  The    *)
(* hardware id is already normalized; edition and version are the          *)
(* defaults of kg.py:20-21.                                                *)

InitBatch ==
    /\ pc = "generate_all"
    /\ argHwid = RawHwid
    /\ edition = "Suite"
    /\ version = 12
    /\ hwid = NormalizeHwid(RawHwid).hwid
    /\ key \in Keys
    /\ seed \in 0 .. MaxSeed
    /\ lines = <<>>
    /\ file = [opened |-> FALSE, content |-> <<"old">>]
    /\ error = "none"
    /\ calls = NoCalls
    /\ msg = <<>>
    /\ gen = [at |-> "none", i |-> 0]
    /\ arg = <<>>
    /\ ret = <<>>

NextBatch == MakeGenerator \/ OpenFile \/ NextRecord \/ WriteFile

SpecBatch == InitBatch /\ [][NextBatch]_vars

SignErrors == {"AssertionError", "SignatureError"}

(* C8: when signing fails on a record, what sign raised is the error of    *)
(* the run (AssertionError exactly for a key that is not of 1024 bits), no *)
(* further record is generated and sign is not called again, and none of   *)
(* the records generated before is written: the file holds record lines    *)
(* only after the single write that follows the 449th record.              *)
C8_StateOnFailure ==
    /\ error \in SignErrors =>
          /\ pc = "failed"
          /\ file = [opened |-> FALSE, content |-> <<>>]
          /\ calls.sign = Len(lines) + 1
          /\ calls.generate_single = Len(lines) + 1
          /\ (error = "AssertionError") <=> (key.key_size # 1024)
    /\ file.content \notin {<<>>, <<"old">>} =>
          /\ pc = "done"
          /\ Len(lines) = 449
          /\ file.content = JoinLines(lines, 1, 449)

C8_SigningFailureAborts ==
    /\ []C8_StateOnFailure
    /\ [][(error \in SignErrors) => (vars' = vars)]_vars
    /\ [][file'.content # file.content =>
             \/ file.content = <<"old">> /\ file'.content = <<>>
             \/ file.content = <<>> /\ Len(lines) = 449 /\ pc' = "done"]_vars

C8_Witness ==
    /\ error = "SignatureError"
    /\ Len(lines) = 448
    /\ calls.sign = 449
    /\ file.content = <<>>

C8_WitnessKeySize ==
    /\ error = "AssertionError"
    /\ key.key_size = 2048
    /\ lines = <<>>
    /\ file.content = <<>>

====
